---- MODULE Spec2Model ----
(***************************************************************************)
(* A model of the feature engine's rule-validation core                    *)
(* (src/feature_engine/model.py): Feature / Relationship lookup, the edge  *)
(* and graph rules, FeatureContainer construction, compile,                *)
(* get_feature_by_guid and the nx_edges export.                            *)
(*                                                                         *)
(* Python values are modelled as follows.                                  *)
(*   - a Relationship is a record [guid, rel];                             *)
(*   - a Feature is a record with the dataclass's six fields;              *)
(*   - a diagnostic string is a record [text, features, rels, guid]: the   *)
(*     fixed text of the f-string and the values interpolated into it;     *)
(*   - the outcome of a call is a record [kind, message, ...] whose kind   *)
(*     is "return" or the name of the exception class raised.              *)
(***************************************************************************)
EXTENDS Integers, Sequences, FiniteSets, TLC

\* ------------------------------------------------------------------ bounds

\* The largest size of a constructed container: the number of its features
\* plus the number of relationships they declare.
MaxSize == 4

\* The guids features and relationship targets are drawn from.
GuidInputs == {0, 1}

\* ------------------------------------------------------------- data model

RelationshipTypes == {"alternative", "incompatible", "complex"}

BindingTime == {"compilation", "initialization", "runtime"}

DefaultVersion == "0.1.0"

Relationship(guid, rel) == [guid |-> guid, rel |-> rel]

\* Python's None where a Relationship is expected (get_rel_to falls off its end).
None == [guid |-> -1, rel |-> "None"]

Feature(guid, name, binding_time, rationale, is_mandatory, relationships) ==
    [guid |-> guid, name |-> name, binding_time |-> binding_time,
     rationale |-> rationale, is_mandatory |-> is_mandatory,
     relationships |-> relationships]

\* "{f.name}/{f.guid}" as interpolated into the rule messages.
NameGuid(f) == <<f.name, f.guid>>

Message(text, fts, rels, guid) ==
    [text |-> text, features |-> fts, rels |-> rels, guid |-> guid]

\* ------------------------------------------------------- sequence helpers

\* The first element of rels whose target guid is g, or None: the body of
\* each `for r in ...relationships: if r.guid == ...: return r` loop.
first_rel_to(rels, g) ==
    IF \E i \in DOMAIN rels : rels[i].guid = g
    THEN rels[CHOOSE i \in DOMAIN rels :
                 /\ rels[i].guid = g
                 /\ \A j \in 1..(i - 1) : rels[j].guid # g]
    ELSE None

\* The concatenation of a list of lists, as a nested comprehension
\* `[x for xs in xss for x in xs]` builds it.
RECURSIVE concat_all(_)
concat_all(xss) ==
    IF xss = <<>> THEN <<>> ELSE Head(xss) \o concat_all(Tail(xss))

\* ------------------------------------------------------- Feature methods

get_rel_to(self, other, drop_direction) ==
    LET own == first_rel_to(self.relationships, other.guid) IN
    IF own # None THEN own
    ELSE IF ~drop_direction THEN first_rel_to(other.relationships, self.guid)
    ELSE None

has_rel_to(self, other) == get_rel_to(self, other, FALSE) # None

relationship_guids(self) ==
    [i \in DOMAIN self.relationships |-> self.relationships[i].guid]

\* ------------------------------------------------------------ edge rules

\* A rule's verdict: the RuleTupleReturn (bool, message).
Verdict(is_rule_met, message) == [ok |-> is_rule_met, message |-> message]

\* eval_relationship, the closure of __disallow_obligatory_mutual_exclusion.
eval_relationship(relationship, f1, f2) ==
    IF relationship = "incompatible" /\ f1.is_mandatory /\ f2.is_mandatory
    THEN Verdict(FALSE, Message("Obligatory functions cannot be mutually exclusive.",
                                <<NameGuid(f1), NameGuid(f2)>>, <<>>, -1))
    ELSE Verdict(TRUE, Message("OK: no mutual exclusion among mandatory features",
                               <<NameGuid(f1), NameGuid(f2)>>, <<>>, -1))

\* Mutation: the rule looks at the relationship kind alone.
disallow_obligatory_mutual_exclusion_any_flag(f1, f2) ==
    LET rel == get_rel_to(f1, f2, FALSE) IN
    IF rel # None /\ rel.rel = "incompatible"
    THEN Verdict(FALSE, Message("Obligatory functions cannot be mutually exclusive.",
                                <<NameGuid(f1), NameGuid(f2)>>, <<>>, -1))
    ELSE Verdict(TRUE, Message("OK: no mutual exclusion among mandatory features",
                               <<NameGuid(f1), NameGuid(f2)>>, <<>>, -1))

disallow_obligatory_mutual_exclusion(f1, f2) ==
    LET rel == get_rel_to(f1, f2, FALSE) IN
    IF rel # None
    THEN eval_relationship(rel.rel, f1, f2)
    ELSE eval_relationship("complex", f1, f2)

\* Mutation: the lookups infer a declaration from the peer
\* (drop_direction left at its default).
disallow_conflicting_relationships_undirected(f1, f2) ==
    IF get_rel_to(f1, f2, FALSE) # None /\ get_rel_to(f2, f1, FALSE) # None
    THEN Verdict(FALSE, Message("Conflicting relationships",
                                <<NameGuid(f1), NameGuid(f2)>>,
                                <<get_rel_to(f1, f2, FALSE), get_rel_to(f2, f1, FALSE)>>, -1))
    ELSE Verdict(TRUE, Message("OK: no conflicting relationships", <<>>, <<>>, -1))

disallow_conflicting_relationships(f1, f2) ==
    IF get_rel_to(f1, f2, TRUE) # None /\ get_rel_to(f2, f1, TRUE) # None
    THEN Verdict(FALSE, Message("Conflicting relationships",
                                <<NameGuid(f1), NameGuid(f2)>>,
                                <<get_rel_to(f1, f2, FALSE), get_rel_to(f2, f1, FALSE)>>, -1))
    ELSE Verdict(TRUE, Message("OK: no conflicting relationships", <<>>, <<>>, -1))

\* The function a name of an edge-rule list stands for.
edge_rule_function(rule_function, f, g) ==
    CASE rule_function = "disallow_obligatory_mutual_exclusion" ->
           disallow_obligatory_mutual_exclusion(f, g)
      [] rule_function = "disallow_conflicting_relationships" ->
           disallow_conflicting_relationships(f, g)

\* Mutation: the wrapper passes a pair of one feature with itself unexamined.
edge_rule_skipping_self_pairs(rule_function, f, g) ==
    IF f.guid = g.guid
    THEN Verdict(TRUE, Message("OK: no conflicting relationships", <<>>, <<>>, -1))
    ELSE edge_rule_function(rule_function, f, g)

\* The decorator's wrapper: it calls the rule and returns its verdict.
edge_rule(rule_function, f, g) == edge_rule_function(rule_function, f, g)

default_edge_rules ==
    <<"disallow_obligatory_mutual_exclusion", "disallow_conflicting_relationships">>

\* ----------------------------------------------------------- graph rules

\* sorted(features, key=lambda f: f.guid): a stable sort, here by insertion
\* of each feature after the features whose guid is not larger.
RECURSIVE insert_by_guid(_, _)
insert_by_guid(s, f) ==
    IF s = <<>> THEN <<f>>
    ELSE IF Head(s).guid <= f.guid THEN <<Head(s)>> \o insert_by_guid(Tail(s), f)
    ELSE <<f>> \o s

RECURSIVE sorted_by_guid(_)
sorted_by_guid(features) ==
    IF features = <<>> THEN <<>>
    ELSE insert_by_guid(sorted_by_guid(SubSeq(features, 1, Len(features) - 1)),
                        features[Len(features)])

\* What one iteration of the generator's loop yields for index idx (from 1).
nonunique_guids_step(s, idx) ==
    (IF s[idx].guid = s[idx + 1].guid
     THEN <<Verdict(FALSE, Message("have the same guid",
                                   <<NameGuid(s[idx]), NameGuid(s[idx + 1])>>, <<>>, -1))>>
     ELSE <<>>)
    \o <<Verdict(TRUE, Message("OK: all GUIDs are unique", <<>>, <<>>, -1))>>

\* Mutation: the loop stops one element early, the last pair is not compared.
disallow_nonunique_guids_short(features) ==
    LET s == sorted_by_guid(features) IN
    concat_all([idx \in 1..(IF Len(s) < 2 THEN 0 ELSE Len(s) - 2) |->
                   nonunique_guids_step(s, idx)])

\* The verdicts the generator yields, in order (the loop breaks at the last
\* element).
disallow_nonunique_guids(features) ==
    LET s == sorted_by_guid(features) IN
    concat_all([idx \in 1..(IF Len(s) = 0 THEN 0 ELSE Len(s) - 1) |->
                   nonunique_guids_step(s, idx)])

\* The graph_rule decorator's wrapper, applied to a name of a graph-rule list.
graph_rule(rule_function, fg) ==
    CASE rule_function = "disallow_nonunique_guids" -> disallow_nonunique_guids(fg)

default_graph_rules == <<"disallow_nonunique_guids">>

\* ------------------------------------------------------ FeatureContainer

\* The outcome of a call: kind is "return" or the exception class raised,
\* message the exception's text; feature, pairs and printed hold what the
\* call returned or printed (empty where it has none).
Outcome(kind, message, feature, pairs, printed) ==
    [kind |-> kind, message |-> message, feature |-> feature,
     pairs |-> pairs, printed |-> printed]

NoMessage == Message("", <<>>, <<>>, -1)

Return == Outcome("return", NoMessage, <<>>, <<>>, <<>>)

Raise(kind, message) == Outcome(kind, message, <<>>, <<>>, <<>>)

\* No call made: the value of a history field before the call it records.
NoOutcome == Outcome("none", NoMessage, <<>>, <<>>, <<>>)

\* Mutation: the first match is returned whenever there is one.
get_feature_by_guid_first_match(features, guid) ==
    LET matching == SelectSeq(features, LAMBDA f : f.guid = guid) IN
    IF Len(matching) = 0
    THEN Raise("NoSuchFeatureException", Message("No feature with guid", <<>>, <<>>, guid))
    ELSE [Return EXCEPT !.feature = <<matching[1]>>]

get_feature_by_guid(features, guid) ==
    LET matching == SelectSeq(features, LAMBDA f : f.guid = guid) IN
    IF Len(matching) = 0
    THEN Raise("NoSuchFeatureException", Message("No feature with guid", <<>>, <<>>, guid))
    ELSE IF Len(matching) = 1
    THEN [Return EXCEPT !.feature = <<matching[1]>>]
    ELSE Raise("FeatureGuidException", Message("Multiple features with guid", <<>>, <<>>, guid))

\* The lookups of the `edges` comprehension, in evaluation order: one per
\* feature f and relationship r of f, [f, g] with g the outcome of the lookup.
edge_lookups(features) ==
    concat_all([i \in DOMAIN features |->
        [j \in DOMAIN features[i].relationships |->
            [f |-> features[i],
             g |-> get_feature_by_guid(features, features[i].relationships[j].guid)]]])

\* The `edges` property: the (f, g) pairs, or the exception of the first
\* lookup that raises.
edges(features) ==
    LET ls == edge_lookups(features)
        bad == {k \in DOMAIN ls : ls[k].g.kind # "return"}
    IN
    IF bad # {}
    THEN LET k == CHOOSE x \in bad : \A y \in bad : x <= y IN ls[k].g
    ELSE [Return EXCEPT !.pairs = [k \in DOMAIN ls |-> <<ls[k].f, ls[k].g.feature[1]>>]]

\* functools.reduce(lambda x, y: x + y, lists) with no initial value.
reduce_concat(lists) ==
    IF lists = <<>>
    THEN Raise("TypeError",
               Message("reduce() of empty iterable with no initial value", <<>>, <<>>, -1))
    ELSE [Return EXCEPT !.pairs = concat_all(lists)]

\* The `nx_edges` property.
nx_edges(features) ==
    reduce_concat([i \in DOMAIN features |->
        [j \in DOMAIN features[i].relationships |->
            <<features[i].guid, features[i].relationships[j].guid>>]])

\* Mutation: the rules are the outer loop, the edges the inner one.
edge_verdicts_rule_major(es, rules) ==
    concat_all([r \in DOMAIN rules |->
        [k \in DOMAIN es |-> edge_rule(rules[r], es[k][1], es[k][2])]])

\* [r(f1, f2) for f1, f2 in self.edges for r in self.edge_rules]
edge_verdicts(es, rules) ==
    concat_all([k \in DOMAIN es |->
        [r \in DOMAIN rules |-> edge_rule(rules[r], es[k][1], es[k][2])]])

\* [t for r in self.graph_rules for t in r(self.features)]
graph_verdicts(features, rules) ==
    concat_all([r \in DOMAIN rules |-> graph_rule(rules[r], features)])

\* One `for is_rule_met, message in ...` loop of compile: each message is
\* printed in debug mode, the first unmet verdict raises CompileException.
check_verdicts(vs, debug) ==
    LET bad == {k \in DOMAIN vs : ~vs[k].ok}
        stop == IF bad = {} THEN Len(vs) ELSE CHOOSE x \in bad : \A y \in bad : x <= y
        printed == IF debug THEN [k \in 1..stop |-> vs[k].message] ELSE <<>>
    IN  IF bad = {}
        THEN [Return EXCEPT !.printed = printed]
        ELSE [Raise("CompileException", vs[stop].message) EXCEPT !.printed = printed]

\* The outcome of compile.
compile_outcome(features, debug, e_rules, g_rules) ==
    LET es == edges(features) IN
    IF es.kind # "return" THEN Raise(es.kind, es.message)
    ELSE LET first == check_verdicts(edge_verdicts(es.pairs, e_rules), debug) IN
         IF first.kind # "return" THEN first
         ELSE LET second == check_verdicts(graph_verdicts(features, g_rules), debug) IN
              [second EXCEPT !.printed = first.printed \o second.printed]

\* Mutation: the uniqueness check sorts self.features in place.
compile_sorting_in_place(features, debug, e_rules, g_rules) ==
    [features |->
        IF /\ edges(features).kind = "return"
           /\ check_verdicts(edge_verdicts(edges(features).pairs, e_rules), debug).kind
                = "return"
        THEN sorted_by_guid(features)
        ELSE features,
     out |-> compile_outcome(features, debug, e_rules, g_rules)]

\* compile: the feature list it leaves behind and its outcome.
compile(features, debug, e_rules, g_rules) ==
    [features |-> features,
     out |-> compile_outcome(features, debug, e_rules, g_rules)]

\* Mutation: construction never compiles.
post_init_never_compiles(features, debug, e_rules, g_rules) ==
    [features |-> features, out |-> Return]

\* __post_init__: compile unless debug.
post_init(features, debug, e_rules, g_rules) ==
    IF ~debug
    THEN compile(features, debug, e_rules, g_rules)
    ELSE [features |-> features, out |-> Return]

\* ----------------------------------------------------------- the inputs

FeatureName(i) == "Feature " \o ToString(i)

RECURSIVE sum_upto(_, _)
sum_upto(counts, i) == IF i = 0 THEN 0 ELSE counts[i] + sum_upto(counts, i - 1)

\* How many relationships each of n features declares: at most MaxSize - n
\* in all.
RelCounts(n) == {c \in [1..n -> 0..(MaxSize - n)] : sum_upto(c, n) <= MaxSize - n}

RelInputs == {Relationship(g, k) : g \in GuidInputs, k \in RelationshipTypes}

\* The feature list of n features with the given guids, mandatory flags and
\* relationships (flat: all relationships in declaration order, counts[i] of
\* them on feature i). Features are named after their position in the list.
InputFeatures(n, guids, mandatory, counts, flat) ==
    [i \in 1..n |->
        Feature(guids[i], FeatureName(i), "compilation", "", mandatory[i],
                SubSeq(flat, sum_upto(counts, i - 1) + 1, sum_upto(counts, i)))]

\* ------------------------------------------------------- the state machine

VARIABLES
    state,        \* "none": no container object; "ready": the caller holds one
    features,     \* FeatureContainer.features
    version,      \* FeatureContainer.version
    debug,        \* FeatureContainer.debug
    edge_rules,   \* FeatureContainer.edge_rules
    graph_rules,  \* FeatureContainer.graph_rules
    last          \* the last call: its name, arguments and outcome

vars == <<state, features, version, debug, edge_rules, graph_rules, last>>

container == <<features, version, debug, edge_rules, graph_rules>>

\* op: the call; guid: the argument of get_feature_by_guid; features, debug:
\* the feature list and debug flag the call ran on; out: its outcome; prev:
\* the outcome of the compile that ran directly before it on the same
\* container, when op is compile.
Call(op, guid, fs, dbg, out, prev) ==
    [op |-> op, guid |-> guid, features |-> fs, debug |-> dbg, out |-> out, prev |-> prev]

Init ==
    /\ state = "none"
    /\ features = <<>>
    /\ version = DefaultVersion
    /\ debug = FALSE
    /\ edge_rules = <<>>
    /\ graph_rules = <<>>
    /\ last = Call("none", -1, <<>>, FALSE, NoOutcome, NoOutcome)

\* FeatureContainer(features=fs, debug=dbg): the dataclass's __init__ sets the
\* fields and calls __post_init__; if that raises, the caller gets no object.
Construct(fs, dbg) ==
    /\ LET r == post_init(fs, dbg, default_edge_rules, default_graph_rules) IN
       /\ last' = Call("construct", -1, fs, dbg, r.out, NoOutcome)
       /\ IF r.out.kind = "return"
          THEN /\ state' = "ready"
               /\ features' = r.features
               /\ version' = DefaultVersion
               /\ debug' = dbg
               /\ edge_rules' = default_edge_rules
               /\ graph_rules' = default_graph_rules
          ELSE UNCHANGED <<state, features, version, debug, edge_rules, graph_rules>>

\* The one construction of a run, on any feature list within the bounds.
ConstructAny ==
    /\ state = "none"
    /\ last.op = "none"
    /\ \E n \in 0..MaxSize :
         \E guids \in [1..n -> GuidInputs], mandatory \in [1..n -> BOOLEAN] :
           \E counts \in RelCounts(n) :
             \E flat \in [1..sum_upto(counts, n) -> RelInputs], dbg \in BOOLEAN :
               Construct(InputFeatures(n, guids, mandatory, counts, flat), dbg)

\* FC.compile()
Compile ==
    /\ state = "ready"
    /\ LET r == compile(features, debug, edge_rules, graph_rules)
           prev == IF last.op = "compile" \/ (last.op = "construct" /\ ~last.debug)
                   THEN last.out ELSE NoOutcome
       IN /\ features' = r.features
          /\ last' = Call("compile", -1, features, debug, r.out, prev)
    /\ UNCHANGED <<state, version, debug, edge_rules, graph_rules>>

\* FC.get_feature_by_guid(guid)
GetFeatureByGuid(guid) ==
    /\ state = "ready"
    /\ last' = Call("get_feature_by_guid", guid, features, debug,
                    get_feature_by_guid(features, guid), NoOutcome)
    /\ UNCHANGED <<state, features, version, debug, edge_rules, graph_rules>>

GetFeatureByGuidAny == \E guid \in GuidInputs : GetFeatureByGuid(guid)

\* FC.nx_edges
NxEdges ==
    /\ state = "ready"
    /\ last' = Call("nx_edges", -1, features, debug, nx_edges(features), NoOutcome)
    /\ UNCHANGED <<state, features, version, debug, edge_rules, graph_rules>>

Next == ConstructAny \/ Compile \/ GetFeatureByGuidAny \/ NxEdges

Spec == Init /\ [][Next]_vars

\* ------------------------------------------- vocabulary of the properties

\* The last call ran compile: an explicit compile, or a construction with
\* debug unset. last.features is the list it ran on, last.out its outcome.
CompileRan == last.op = "compile" \/ (last.op = "construct" /\ ~last.debug)

Matching(fs, g) == {i \in DOMAIN fs : fs[i].guid = g}

UniqueGuids(fs) == \A i, j \in DOMAIN fs : fs[i].guid = fs[j].guid => i = j

HasDuplicateGuid(fs) == ~UniqueGuids(fs)

\* The declared relationships of a list: <<i, j>> is relationship j of feature i.
Slots(fs) == UNION {{<<i, j>> : j \in DOMAIN fs[i].relationships} : i \in DOMAIN fs}

Target(fs, s) == fs[s[1]].relationships[s[2]].guid

\* Feature-then-relationship declaration order.
Before(s, t) == s[1] < t[1] \/ (s[1] = t[1] /\ s[2] < t[2])

AllResolve(fs) == \A s \in Slots(fs) : Cardinality(Matching(fs, Target(fs, s))) = 1

\* Feature f declares a relationship whose target is g's guid.
Declares(f, g) == \E j \in DOMAIN f.relationships : f.relationships[j].guid = g.guid

DeclaresIncompatible(f, g) ==
    \E j \in DOMAIN f.relationships :
        f.relationships[j].guid = g.guid /\ f.relationships[j].rel = "incompatible"

\* The edge a resolving slot stands for.
EdgeOf(fs, s) ==
    <<fs[s[1]], fs[CHOOSE i \in DOMAIN fs : fs[i].guid = Target(fs, s)]>>

\* The (slot, rule) checks whose verdict is unsatisfied, for a list whose
\* targets all resolve.
FailingChecks(fs) ==
    {c \in Slots(fs) \X DOMAIN default_edge_rules :
        LET e == EdgeOf(fs, c[1]) IN ~edge_rule(default_edge_rules[c[2]], e[1], e[2]).ok}

CheckBefore(c, d) == Before(c[1], d[1]) \/ (c[1] = d[1] /\ c[2] < d[2])

\* The two features the uniqueness rule names: of the smallest duplicated
\* guid, the first two features in list order.
FirstCollision(fs) ==
    LET dup == {fs[i].guid : i \in {x \in DOMAIN fs : Cardinality(Matching(fs, fs[x].guid)) > 1}}
        g == CHOOSE x \in dup : \A y \in dup : x <= y
        a == CHOOSE i \in Matching(fs, g) : \A k \in Matching(fs, g) : i <= k
        b == CHOOSE j \in Matching(fs, g) \ {a} : \A k \in Matching(fs, g) \ {a} : j <= k
    IN  <<NameGuid(fs[a]), NameGuid(fs[b])>>

\* ------------------------------------------------------------------- C1

\* C1, as stated: whenever compile ran on a list holding two features with
\* the same guid, it raised CompileException with the uniqueness rule's
\* message naming both colliding features.
C1_AnyDuplicateIsCompileViolation ==
    (CompileRan /\ HasDuplicateGuid(last.features)) =>
        /\ last.out.kind = "CompileException"
        /\ last.out.message.text = "have the same guid"
        /\ last.out.message.features = FirstCollision(last.features)

\* C1, amended: compile on a list with a duplicated guid never succeeds; if
\* some relationship target matches zero or several features it ends in that
\* lookup failure; if every target resolves it raises CompileException, and
\* when in addition no edge verdict is unsatisfied the message is the
\* uniqueness rule's, naming the two colliding features.
C1_DuplicateNeverCompiles ==
    (CompileRan /\ HasDuplicateGuid(last.features)) =>
        /\ last.out.kind # "return"
        /\ ~AllResolve(last.features) =>
              last.out.kind \in {"NoSuchFeatureException", "FeatureGuidException"}
        /\ AllResolve(last.features) => last.out.kind = "CompileException"
        /\ (AllResolve(last.features) /\ FailingChecks(last.features) = {}) =>
              /\ last.out.message.text = "have the same guid"
              /\ last.out.message.features = FirstCollision(last.features)

\* Colliding features that are not adjacent in the list, beside a feature
\* with a resolving relationship.
C1_Witness ==
    /\ CompileRan
    /\ Len(last.features) = 3
    /\ last.features[1].guid = last.features[3].guid
    /\ last.features[2].guid # last.features[1].guid
    /\ Slots(last.features) # {}
    /\ AllResolve(last.features)
    /\ last.out.kind = "CompileException"
    /\ last.out.message.text = "have the same guid"

\* ------------------------------------------------------------------- C2

\* C2: on a list with unique guids and resolving targets, two mandatory
\* features one of which declares an Incompatible relationship to the other
\* make compile raise CompileException; and the mutual-exclusion rule reports
\* success for a pair of which one feature is optional.
C2_MandatoryIncompatibleFails ==
    (CompileRan /\ UniqueGuids(last.features) /\ AllResolve(last.features)) =>
        \A a, b \in DOMAIN last.features :
            LET f == last.features[a]
                g == last.features[b]
            IN  /\ (/\ f.is_mandatory /\ g.is_mandatory
                    /\ (DeclaresIncompatible(f, g) \/ DeclaresIncompatible(g, f)))
                        => last.out.kind = "CompileException"
                /\ (~f.is_mandatory \/ ~g.is_mandatory)
                        => disallow_obligatory_mutual_exclusion(f, g).ok

\* ------------------------------------------------------------------- C3

\* C3, as stated: for distinct features A and B of the list compile ran on,
\* if each declares a relationship to the other's guid compile raised
\* CompileException, and if only one does the conflict rule succeeds on both
\* orders of the pair.
C3_MutualDeclarationFails ==
    CompileRan =>
        \A a, b \in DOMAIN last.features :
            LET A == last.features[a]
                B == last.features[b]
            IN  a # b =>
                  /\ (Declares(A, B) /\ Declares(B, A))
                        => last.out.kind = "CompileException"
                  /\ (Declares(A, B) /\ ~Declares(B, A))
                        => /\ disallow_conflicting_relationships(A, B).ok
                           /\ disallow_conflicting_relationships(B, A).ok

\* C3, amended: the same, for a list whose relationship targets each resolve
\* to exactly one feature (otherwise compile ends in the lookup failure).
C3_MutualDeclarationFailsWhenResolving ==
    CompileRan =>
        \A a, b \in DOMAIN last.features :
            LET A == last.features[a]
                B == last.features[b]
            IN  a # b =>
                  /\ (AllResolve(last.features) /\ Declares(A, B) /\ Declares(B, A))
                        => last.out.kind = "CompileException"
                  /\ (Declares(A, B) /\ ~Declares(B, A))
                        => /\ disallow_conflicting_relationships(A, B).ok
                           /\ disallow_conflicting_relationships(B, A).ok

C3_Witness ==
    /\ CompileRan
    /\ AllResolve(last.features)
    /\ Len(last.features) = 2
    /\ Declares(last.features[1], last.features[2])
    /\ Declares(last.features[2], last.features[1])
    /\ last.out.kind = "CompileException"
    /\ last.out.message.text = "Conflicting relationships"

\* ------------------------------------------------------------------- C4

\* The conditions of C4 on a feature list.
WellFormed(fs) ==
    /\ UniqueGuids(fs)
    /\ \A s \in Slots(fs) : Matching(fs, Target(fs, s)) # {}
    /\ \A a, b \in DOMAIN fs :
          (fs[a].is_mandatory /\ fs[b].is_mandatory) => ~DeclaresIncompatible(fs[a], fs[b])
    /\ \A a, b \in DOMAIN fs : ~(Declares(fs[a], fs[b]) /\ Declares(fs[b], fs[a]))

\* C4: compile succeeds on every list with pairwise distinct guids, resolving
\* targets, no Incompatible relationship between two mandatory features and
\* no two features (or one feature with itself) declaring each other.
C4_WellFormedCompiles ==
    (CompileRan /\ WellFormed(last.features)) => last.out.kind = "return"

C4_Witness ==
    /\ CompileRan
    /\ WellFormed(last.features)
    /\ Len(last.features) = 2
    /\ DeclaresIncompatible(last.features[1], last.features[2])
    /\ last.out.kind = "return"

\* ------------------------------------------------------------------- C5

\* What compile raises on a list under the default rules, whatever the
\* debug flag: the exception class and its message.
Raised(fs) ==
    LET o == compile_outcome(fs, FALSE, default_edge_rules, default_graph_rules)
    IN  <<o.kind, o.message>>

\* C5: a construction with debug unset ends as compile on its feature list
\* ends, and yields a container only if that compile succeeds, so a non-debug
\* container never holds a list compile rejects; a construction with debug
\* set always yields the container, unvalidated, and an explicit compile on
\* it then ends as compile on that list ends.
C5_ConstructionCompilesUnlessDebug ==
    /\ (last.op = "construct" /\ ~last.debug) =>
          /\ <<last.out.kind, last.out.message>> = Raised(last.features)
          /\ state = "ready" <=> last.out.kind = "return"
    /\ (last.op = "construct" /\ last.debug) =>
          /\ last.out = Return
          /\ state = "ready" /\ debug /\ features = last.features
    /\ (state = "ready" /\ ~debug) => Raised(features)[1] = "return"
    /\ (last.op = "compile" /\ debug) =>
          <<last.out.kind, last.out.message>> = Raised(features)

C5_Witness ==
    /\ state = "ready" /\ debug
    /\ last.op = "compile"
    /\ last.out.kind = "CompileException"

\* ------------------------------------------------------------------- C6

\* C6: after a compile the container is what it was before it (feature list,
\* version, debug flag, rule lists), whether compile returned or raised, and
\* a compile that directly follows a compile on the same container has the
\* same outcome as that one.
C6_CompileLeavesContainerUnchanged ==
    last.op = "compile" =>
        /\ features = last.features
        /\ debug = last.debug
        /\ version = DefaultVersion
        /\ edge_rules = default_edge_rules
        /\ graph_rules = default_graph_rules
        /\ last.prev # NoOutcome => last.out = last.prev

C6_Witness ==
    /\ last.op = "compile"
    /\ last.prev.kind = "CompileException"
    /\ last.out = last.prev
    /\ features = last.features

\* ------------------------------------------------------------------- C7

\* One (source guid, target guid) pair per declared relationship, in
\* feature-then-relationship declaration order.
DeclaredPairs(fs) ==
    LET ss == Slots(fs)
        rank(s) == 1 + Cardinality({t \in ss : Before(t, s)})
    IN  [k \in 1..Cardinality(ss) |->
            LET s == CHOOSE t \in ss : rank(t) = k IN <<fs[s[1]].guid, Target(fs, s)>>]

\* C7: nx_edges returns, on every container, one (source guid, target guid)
\* pair per declared relationship in feature-then-relationship order, and
\* never raises.
C7_ExportNeverRaises ==
    last.op = "nx_edges" =>
        /\ last.out.kind = "return"
        /\ last.out.pairs = DeclaredPairs(last.features)
        /\ features = last.features

\* ------------------------------------------------------------------- C8

\* C8: get_feature_by_guid(guid) raises NoSuchFeatureException when no
\* feature has the guid, returns the feature when exactly one has it, raises
\* FeatureGuidException when several have it, and leaves the container as it
\* was.
C8_LookupHasThreeOutcomes ==
    last.op = "get_feature_by_guid" =>
        LET m == Matching(last.features, last.guid) IN
        /\ Cardinality(m) = 0 => last.out.kind = "NoSuchFeatureException"
        /\ Cardinality(m) = 1 =>
              /\ last.out.kind = "return"
              /\ last.out.feature = <<last.features[CHOOSE i \in m : TRUE]>>
        /\ Cardinality(m) > 1 =>
              /\ last.out.kind = "FeatureGuidException"
              /\ last.out.feature = <<>>
        /\ features = last.features
        /\ debug = last.debug

C8_Witness ==
    /\ last.op = "get_feature_by_guid"
    /\ Cardinality(Matching(last.features, last.guid)) > 1
    /\ last.out.kind = "FeatureGuidException"

\* ------------------------------------------------------------------- C9

\* The least element of a nonempty set under a strict order.
FirstSlot(S) == CHOOSE s \in S : \A t \in S : t = s \/ Before(s, t)

FirstCheck(S) == CHOOSE c \in S : \A d \in S : d = c \/ CheckBefore(c, d)

\* C9: compile ends in the first failure of this order: the lookup failure
\* of the first relationship (feature-then-relationship order) whose target
\* matches zero or several features, whatever rule is also violated; else
\* the CompileException of the first unsatisfied edge verdict, edges in
\* edge-list order and, per edge, rules in rule-list order; else that of the
\* first unsatisfied graph verdict; else it succeeds. The debug flag does
\* not matter.
C9_FirstFailureInFixedOrder ==
    CompileRan =>
        LET fs == last.features
            bad == {s \in Slots(fs) : Cardinality(Matching(fs, Target(fs, s))) # 1}
            gv == graph_verdicts(fs, default_graph_rules)
            gbad == {k \in DOMAIN gv : ~gv[k].ok}
            failing == FailingChecks(fs)
        IN  IF bad # {}
            THEN LET s == FirstSlot(bad) IN
                 /\ last.out.kind =
                       IF Matching(fs, Target(fs, s)) = {}
                       THEN "NoSuchFeatureException" ELSE "FeatureGuidException"
                 /\ last.out.message.guid = Target(fs, s)
            ELSE IF failing # {}
            THEN LET c == FirstCheck(failing)
                     e == EdgeOf(fs, c[1])
                 IN  /\ last.out.kind = "CompileException"
                     /\ last.out.message =
                           edge_rule(default_edge_rules[c[2]], e[1], e[2]).message
            ELSE IF gbad # {}
            THEN /\ last.out.kind = "CompileException"
                 /\ last.out.message = gv[CHOOSE k \in gbad : \A j \in gbad : k <= j].message
            ELSE last.out.kind = "return"

\* A lookup failure wins over a rule violation that is also present.
C9_Witness ==
    /\ CompileRan
    /\ HasDuplicateGuid(last.features)
    /\ \E a, b \in DOMAIN last.features :
          /\ last.features[a].is_mandatory /\ last.features[b].is_mandatory
          /\ DeclaresIncompatible(last.features[a], last.features[b])
    /\ last.out.kind = "FeatureGuidException"

\* ------------------------------------------------------------------ C10

HasSelfRelationship(fs) == \E i \in DOMAIN fs : Declares(fs[i], fs[i])

\* C10: compile never succeeds on a list in which a feature declares a
\* relationship to its own guid, whatever the relationship kind and the
\* mandatory flag; so a container a compile has accepted holds none.
C10_SelfRelationshipNeverCompiles ==
    /\ (CompileRan /\ HasSelfRelationship(last.features)) => last.out.kind # "return"
    /\ (CompileRan /\ state = "ready" /\ last.out.kind = "return")
          => ~HasSelfRelationship(features)

C10_Witness ==
    /\ CompileRan
    /\ UniqueGuids(last.features)
    /\ HasSelfRelationship(last.features)
    /\ \A i \in DOMAIN last.features : ~last.features[i].is_mandatory
    /\ last.out.kind = "CompileException"
    /\ last.out.message.text = "Conflicting relationships"

====
